---- MODULE Spec2Model ----
(***************************************************************************)
(* Model of the resume PDF generation handler (the /api/generate route)    *)
(* and of the pure text functions it is built from.                        *)
(*                                                                         *)
(* Text is a sequence of one-character strings, so that the regular        *)
(* expression passes and JSON.parse are computed character by character.   *)
(* A JSON value is a pair <<tag, payload>>:                                *)
(*   <<"s", chars>>           a string                                     *)
(*   <<"a", <<v1, ..., vn>>>>  an array                                    *)
(*   <<"o", <<<<k1, v1>>, ...>>>>  an object, keys in insertion order      *)
(*   <<"u", <<>>>>            undefined (an absent property)               *)
(***************************************************************************)
EXTENDS Integers, Sequences, FiniteSets, TLC

VARIABLES
    req,            \* slot -> the request being served there and its progress
    profileCache,   \* profileCache (Map): the set of cached profile names
    templateCache,  \* templateCache (Map): template name -> compiled layout
    arg,            \* the input of the pure function under check
    ret             \* its result

vars == <<req, profileCache, templateCache, arg, ret>>

(***************************************************************************)
(* Characters                                                              *)
(***************************************************************************)
Q == "\""
\* the backtick character (the lexer of TLA+ does not take it inside a string)
BT == "BACKTICK"
WS == {" ", "\n"}

\* the least element of a non-empty set of indices
MinOf(S) == CHOOSE x \in S : \A y \in S : x <= y
MaxOf(S) == CHOOSE x \in S : \A y \in S : x >= y

\* the element of a singleton set: The({e : x \in {v}}) is e with x bound to
\* the value of v, which is then computed once however often e uses it
The(S) == CHOOSE x \in S : TRUE

\* String.prototype.trim
RECURSIVE TrimLeft(_)
TrimLeft(s) ==
    IF s # <<>> /\ Head(s) \in WS THEN TrimLeft(Tail(s)) ELSE s

RECURSIVE TrimRight(_)
TrimRight(s) ==
    IF s # <<>> /\ s[Len(s)] \in WS THEN TrimRight(SubSeq(s, 1, Len(s) - 1)) ELSE s

Trim(s) == The({ TrimRight(t) : t \in {TrimLeft(s)} })

\* index of the first character from i on that is not white space (\s*)
RECURSIVE SkipWs(_, _)
SkipWs(s, i) ==
    IF i <= Len(s) /\ s[i] \in WS THEN SkipWs(s, i + 1) ELSE i

\* the i flag of a regular expression, on the letters of the language tags
Lower(c) ==
    CASE c = "J" -> "j"
      [] c = "S" -> "s"
      [] c = "O" -> "o"
      [] c = "N" -> "n"
      [] c = "A" -> "a"
      [] OTHER -> c

\* does w occur in s at index i (letters compared case-insensitively when ci)
MatchAt(s, i, w, ci) ==
    /\ i + Len(w) - 1 <= Len(s)
    /\ \A k \in 1..Len(w) :
          IF ci THEN Lower(s[i + k - 1]) = Lower(w[k]) ELSE s[i + k - 1] = w[k]

Fence == <<BT, BT, BT>>
TagJson == <<"j", "s", "o", "n">>
TagJavascript == <<"j", "a", "v", "a", "s", "c", "r", "i", "p", "t">>

\* String.prototype.indexOf / lastIndexOf, 1-based, 0 when absent (-1 in the code)
IndexFrom(s, c, i) ==
    The({ IF hits = {} THEN 0 ELSE MinOf(hits) : hits \in {{j \in i..Len(s) : s[j] = c}} })

IndexOf(s, c) == IndexFrom(s, c, 1)

LastIndexOf(s, c) ==
    The({ IF hits = {} THEN 0 ELSE MaxOf(hits) : hits \in {{j \in 1..Len(s) : s[j] = c}} })

\* A global replace scans for the leftmost match at or after i, emits the
\* text before it and the replacement, and goes on after the match.

\* end (exclusive) of (?:json|javascript)? at i
AfterTag(s, i) ==
    IF MatchAt(s, i, TagJson, TRUE) THEN i + Len(TagJson)
    ELSE IF MatchAt(s, i, TagJavascript, TRUE) THEN i + Len(TagJavascript)
    ELSE i

NextFence(s, i) ==
    The({ IF hits = {} THEN 0 ELSE MinOf(hits)
          : hits \in {{j \in i..Len(s) : MatchAt(s, j, Fence, FALSE)}} })

\* content.replace(/BT BT BT(?:json|javascript)?\s*/gi, "")
RECURSIVE StripTaggedFences(_, _)
StripTaggedFences(s, i) ==
    The({ IF m = 0 THEN SubSeq(s, i, Len(s))
          ELSE SubSeq(s, i, m - 1)
                  \o The({ StripTaggedFences(s, n) : n \in {SkipWs(s, AfterTag(s, m + 3))} })
          : m \in {NextFence(s, i)} })

\* .replace(/BT BT BT\s*/g, "")
RECURSIVE StripBareFences(_, _)
StripBareFences(s, i) ==
    The({ IF m = 0 THEN SubSeq(s, i, Len(s))
          ELSE SubSeq(s, i, m - 1)
                  \o The({ StripBareFences(s, n) : n \in {SkipWs(s, m + 3)} })
          : m \in {NextFence(s, i)} })

StripFences(content) ==
    The({ The({ Trim(StripBareFences(t, 1)) : t \in {StripTaggedFences(s, 1)} })
          : s \in {content} })

\* the leftmost comma at or after i that white space and then one of the
\* characters of after follow
NextComma(s, i, after) ==
    The({ IF hits = {} THEN 0 ELSE MinOf(hits)
          : hits \in {{j \in i..Len(s) :
                          /\ s[j] = ","
                          /\ SkipWs(s, j + 1) <= Len(s)
                          /\ s[SkipWs(s, j + 1)] \in after}} })

\* content.replace(/,(\s*[}\]])/g, $1): the comma goes, the rest of the match stays
RECURSIVE RemoveTrailingCommas(_, _)
RemoveTrailingCommas(s, i) ==
    The({ IF m = 0 THEN SubSeq(s, i, Len(s))
          ELSE The({ SubSeq(s, i, m - 1) \o SubSeq(s, m + 1, j)
                        \o The({ RemoveTrailingCommas(s, n) : n \in {j + 1} })
                     : j \in {SkipWs(s, m + 1)} })
          : m \in {NextComma(s, i, {"}", "]"})} })

\* .replace(/,\s*,/g, ',')
RECURSIVE RemoveDoubleCommas(_, _)
RemoveDoubleCommas(s, i) ==
    The({ IF m = 0 THEN SubSeq(s, i, Len(s))
          ELSE SubSeq(s, i, m - 1) \o <<",">>
                  \o The({ RemoveDoubleCommas(s, n) : n \in {SkipWs(s, m + 1) + 1} })
          : m \in {NextComma(s, i, {","})} })

FixCommonIssues(content) ==
    The({ The({ RemoveDoubleCommas(t, 1) : t \in {RemoveTrailingCommas(s, 1)} })
          : s \in {content} })

(***************************************************************************)
(* JSON.parse on texts whose values are strings, arrays and objects.       *)
(* A result is [ok, val, pos]: pos is the index after the value, or the    *)
(* index of the offending character when ok is FALSE (the position that    *)
(* the SyntaxError message reports).                                       *)
(***************************************************************************)
Undefined == <<"u", <<>>>>
StrVal(chars) == <<"s", chars>>
ArrVal(items) == <<"a", items>>
ObjVal(pairs) == <<"o", pairs>>

Ok(v, p) == [ok |-> TRUE, val |-> v, pos |-> p]
Bad(p) == [ok |-> FALSE, val |-> Undefined, pos |-> p]

\* obj[key] = v: a repeated key keeps its place and takes the later value
PutPair(pairs, k, v) ==
    IF \E i \in 1..Len(pairs) : pairs[i][1] = k
    THEN [i \in 1..Len(pairs) |-> IF pairs[i][1] = k THEN <<k, v>> ELSE pairs[i]]
    ELSE Append(pairs, <<k, v>>)

\* the string literal whose first character is at i: it runs to the next
\* quote (no escapes), and a raw control character in it is an error
ParseChars(s, i) ==
    The({ IF ctl # 0 /\ (close = 0 \/ ctl < close) THEN Bad(ctl)
          ELSE IF close = 0 THEN Bad(Len(s) + 1)
          ELSE Ok(StrVal(SubSeq(s, i, close - 1)), close + 1)
          : close \in {IndexFrom(s, Q, i)}, ctl \in {IndexFrom(s, "\n", i)} })

RECURSIVE ParseValue(_, _)
RECURSIVE ParseElements(_, _, _)
RECURSIVE ParseMembers(_, _, _)

ParseValue(s, i) ==
    IF i > Len(s) THEN Bad(i)
    ELSE IF s[i] = Q THEN ParseChars(s, i + 1)
    ELSE IF s[i] = "[" THEN
        The({ IF j <= Len(s) /\ s[j] = "]" THEN Ok(ArrVal(<<>>), j + 1)
              ELSE ParseElements(s, j, <<>>) : j \in {SkipWs(s, i + 1)} })
    ELSE IF s[i] = "{" THEN
        The({ IF j <= Len(s) /\ s[j] = "}" THEN Ok(ObjVal(<<>>), j + 1)
              ELSE ParseMembers(s, j, <<>>) : j \in {SkipWs(s, i + 1)} })
    ELSE Bad(i)

\* after a value at i: a comma and the next element, or the closing bracket
ParseElements(s, i, acc) ==
    The({ IF ~r.ok THEN r
          ELSE The({ IF k > Len(s) THEN Bad(k)
                     ELSE IF s[k] = ","
                     THEN The({ ParseElements(s, n, items) : n \in {SkipWs(s, k + 1)} })
                     ELSE IF s[k] = "]" THEN Ok(ArrVal(items), k + 1)
                     ELSE Bad(k)
                     : k \in {SkipWs(s, r.pos)}, items \in {Append(acc, r.val)} })
          : r \in {ParseValue(s, i)} })

\* a member "key": value at i, then a comma and the next member, or the
\* closing brace
ParseMembers(s, i, acc) ==
    IF i > Len(s) \/ s[i] # Q THEN Bad(i)
    ELSE
    The({ IF ~key.ok THEN key
          ELSE The({ IF c > Len(s) \/ s[c] # ":" THEN Bad(c)
                     ELSE The({ IF ~r.ok THEN r
                                ELSE The({ IF k > Len(s) THEN Bad(k)
                                           ELSE IF s[k] = ","
                                           THEN The({ ParseMembers(s, n, pairs) :
                                                        n \in {SkipWs(s, k + 1)} })
                                           ELSE IF s[k] = "}" THEN Ok(ObjVal(pairs), k + 1)
                                           ELSE Bad(k)
                                           : k \in {SkipWs(s, r.pos)},
                                             pairs \in {PutPair(acc, key.val[2], r.val)} })
                                : r \in {ParseValue(s, SkipWs(s, c + 1))} })
                     : c \in {SkipWs(s, key.pos)} })
          : key \in {ParseChars(s, i + 1)} })

\* JSON.parse(text): one value, with nothing but white space around it
JSONparse(text) ==
    The({ The({ IF ~r.ok THEN r
                ELSE IF SkipWs(s, r.pos) <= Len(s) THEN Bad(SkipWs(s, r.pos))
                ELSE r
                : r \in {ParseValue(s, SkipWs(s, 1))} })
          : s \in {text} })

\* JSON.stringify, and the same text with a comma added before the closing
\* bracket or brace of every non-empty array and object (tc)
RECURSIVE Stringify(_, _)
RECURSIVE StringifyItems(_, _)
RECURSIVE StringifyPairs(_, _)

Stringify(v, tc) ==
    CASE v[1] = "s" -> <<Q>> \o v[2] \o <<Q>>
      [] v[1] = "a" -> IF v[2] = <<>> THEN <<"[", "]">>
                       ELSE <<"[">> \o StringifyItems(v[2], tc)
                            \o (IF tc THEN <<",">> ELSE <<>>) \o <<"]">>
      [] v[1] = "o" -> IF v[2] = <<>> THEN <<"{", "}">>
                       ELSE <<"{">> \o StringifyPairs(v[2], tc)
                            \o (IF tc THEN <<",">> ELSE <<>>) \o <<"}">>

StringifyItems(items, tc) ==
    IF Len(items) = 1 THEN Stringify(items[1], tc)
    ELSE Stringify(Head(items), tc) \o <<",">> \o StringifyItems(Tail(items), tc)

StringifyPairs(pairs, tc) ==
    LET one == <<Q>> \o Head(pairs)[1] \o <<Q, ":">> \o Stringify(Head(pairs)[2], tc)
    IN  IF Len(pairs) = 1 THEN one
        ELSE one \o <<",">> \o StringifyPairs(Tail(pairs), tc)

(***************************************************************************)
(* Property access and truthiness of parsed values                         *)
(***************************************************************************)
KTitle == <<"t", "i", "t", "l", "e">>
KSummary == <<"s", "u", "m", "m", "a", "r", "y">>
KSkills == <<"s", "k", "i", "l", "l", "s">>
KExperience == <<"e", "x", "p", "e", "r", "i", "e", "n", "c", "e">>
KDetails == <<"d", "e", "t", "a", "i", "l", "s">>

RequiredKeys == <<KTitle, KSummary, KSkills, KExperience>>

\* obj.key (obj?.key when obj is undefined): undefined when the key is absent
GetPair(pairs, k) ==
    IF \E i \in 1..Len(pairs) : pairs[i][1] = k
    THEN pairs[CHOOSE i \in 1..Len(pairs) : pairs[i][1] = k][2]
    ELSE Undefined

Get(v, k) == IF v[1] = "o" THEN GetPair(v[2], k) ELSE Undefined

\* !x is false: the empty string and undefined are falsy, containers are truthy
Truthy(v) ==
    CASE v[1] = "s" -> v[2] # <<>>
      [] v[1] = "a" -> TRUE
      [] v[1] = "o" -> TRUE
      [] OTHER -> FALSE

(***************************************************************************)
(* Content normalization: the handler from jd.trim() to the validation of  *)
(* the required fields.  A step returns [ok, ...] or the Error thrown.     *)
(***************************************************************************)
MsgNoJson == "Invalid JSON format. Please provide valid JSON with title, summary, skills, and experience fields."
MsgInvalidJson == "Invalid JSON format: ${parseError.message}. Please check your JSON syntax."
MsgMissing == "JSON missing required fields (title, summary, skills, or experience)"

\* an Error: its message text and, for a SyntaxError carried along, the
\* position that the parser's message reports (0 otherwise)
Thrown(text, at) ==
    [ok |-> FALSE, error |-> <<text, at>>, content |-> Undefined, parses |-> 0]
Returned(v, n) ==
    [ok |-> TRUE, error |-> <<"", 0>>, content |-> v, parses |-> n]

\* fence stripping and slicing from the first { to the last }
ExtractJson(jd) ==
    The({ The({ IF firstBrace # 0 /\ lastBrace # 0 /\ lastBrace > firstBrace
                THEN [ok |-> TRUE, text |-> SubSeq(content, firstBrace, lastBrace)]
                ELSE [ok |-> FALSE, text |-> <<>>]
                : firstBrace \in {IndexOf(content, "{")},
                  lastBrace \in {LastIndexOf(content, "}")} })
          : content \in {StripFences(Trim(jd))} })

\* the message of the second failure in place of the first
ParseWithRepair_SecondMessage(content) ==
    The({ IF first.ok THEN Returned(first.val, 1)
          ELSE The({ IF second.ok THEN Returned(second.val, 2)
                     ELSE [Thrown(MsgInvalidJson, second.pos) EXCEPT !.parses = 2]
                     : second \in {JSONparse(FixCommonIssues(content))} })
          : first \in {JSONparse(content)} })

\* JSON.parse, and on its failure one parse of the repaired text
ParseWithRepair(content) ==
    The({ IF first.ok THEN Returned(first.val, 1)
          ELSE The({ IF second.ok THEN Returned(second.val, 2)
                     ELSE [Thrown(MsgInvalidJson, first.pos) EXCEPT !.parses = 2]
                     : second \in {JSONparse(FixCommonIssues(content))} })
          : first \in {JSONparse(content)} })

MissingRequired_NoExperience(content) ==
    \E i \in 1..3 : ~Truthy(Get(content, RequiredKeys[i]))

\* the required-field validation
MissingRequired(content) ==
    \E i \in 1..Len(RequiredKeys) : ~Truthy(Get(content, RequiredKeys[i]))

ValidateFields(parsed) ==
    The({ IF r.ok /\ MissingRequired(r.content)
          THEN [Thrown(MsgMissing, 0) EXCEPT !.parses = r.parses]
          ELSE r
          : r \in {parsed} })

Normalize(jd) ==
    The({ IF ~x.ok THEN Thrown(MsgNoJson, 0)
          ELSE ValidateFields(ParseWithRepair(x.text))
          : x \in {ExtractJson(jd)} })

(***************************************************************************)
(* Profile store: the records under resumes/, as JSON.parse returns them   *)
(***************************************************************************)
Job(title, company) ==
    [title |-> title, company |-> StrVal(company), location |-> StrVal(<<"N", "Y">>),
     start_date |-> StrVal(<<"1">>), end_date |-> StrVal(<<"2">>)]

JaneDoe ==
    [name |-> <<"J", "a", "n", "e", " ", "D", "o", "e">>,
     experience |-> << Job(StrVal(<<"L", "e", "a", "d">>), <<"X">>),
                       Job(Undefined, <<"Y">>) >>]

\* the profile files that exist, by profile name
ProfileStore == {"jane"}
ProfileFile(name) == JaneDoe

loadProfile_CachesMiss(cache, profileName) ==
    [found |-> profileName \in ProfileStore, cache |-> cache \cup {profileName}]

\* loadProfile: [found, cache]; the cache is the set of names it holds, each
\* mapped to the record of the store
loadProfile(cache, profileName) ==
    IF profileName \in cache
    THEN [found |-> TRUE, cache |-> cache]
    ELSE IF profileName \notin ProfileStore
    THEN [found |-> FALSE, cache |-> cache]
    ELSE [found |-> TRUE, cache |-> cache \cup {profileName}]

(***************************************************************************)
(* Template registry                                                       *)
(***************************************************************************)
TEMPLATE_OPTIONS ==
    [default |-> "Resume.html", modern |-> "Resume_Modern.html",
     classic |-> "Resume_Classic.html", contemporary |-> "Resume_Contemporary.html",
     compact |-> "Resume_Compact.html", elegant |-> "Resume_Elegant.html"]

\* the property names every object inherits from Object.prototype
ObjectPrototype == {"constructor", "toString", "valueOf", "hasOwnProperty", "__proto__"}

\* the layout files under templates/
TemplatesOnDisk == {TEMPLATE_OPTIONS[k] : k \in DOMAIN TEMPLATE_OPTIONS}

\* TEMPLATE_OPTIONS[templateName]: an own property, else an inherited one
\* (a function or an object, never a string), else undefined
OptionsLookup(templateName) ==
    IF templateName \in DOMAIN TEMPLATE_OPTIONS
    THEN [kind |-> "string", file |-> TEMPLATE_OPTIONS[templateName]]
    ELSE IF templateName \in ObjectPrototype
    THEN [kind |-> "inherited", file |-> ""]
    ELSE [kind |-> "undefined", file |-> ""]

NoLayout == "none"
Compile(file) == file

\* the name that the validation at the top of getTemplate leaves
ValidatedName(templateName) ==
    IF OptionsLookup(templateName).kind = "undefined" THEN "default" ELSE templateName

\* getTemplate: [threw, layout, cache]; cache is the templateCache after the call
RECURSIVE getTemplate(_, _)
getTemplate(cache, requested) ==
    LET templateName == ValidatedName(requested)
        templateFile == OptionsLookup(templateName)
    IN  IF templateName \in DOMAIN cache
        THEN [threw |-> FALSE, layout |-> cache[templateName], cache |-> cache]
        ELSE IF templateFile.kind # "string"
        THEN \* path.join throws a TypeError on an argument that is no string
             [threw |-> TRUE, layout |-> NoLayout, cache |-> cache]
        ELSE IF templateFile.file \notin TemplatesOnDisk
        THEN getTemplate(cache, "default")
        ELSE [threw |-> FALSE, layout |-> Compile(templateFile.file),
              cache |-> [n \in DOMAIN cache \cup {templateName} |->
                            IF n = templateName THEN Compile(templateFile.file)
                            ELSE cache[n]]]

(***************************************************************************)
(* Merge of the profile and the submitted content (templateData)           *)
(***************************************************************************)
\* a || b
OrElse(a, b) == IF Truthy(a) THEN a ELSE b

\* the index off by one: the entry after the one asked for
At_NextEntry(v, i) == IF v[1] = "a" /\ i + 1 <= Len(v[2]) THEN v[2][i + 1] ELSE Undefined

\* arr[idx] (idx counted from 1 here): undefined past the end
At(v, i) == IF v[1] = "a" /\ i <= Len(v[2]) THEN v[2][i] ELSE Undefined

Engineer == StrVal(<<"E", "n", "g", "i", "n", "e", "e", "r">>)

MergeJob(job, exp) ==
    [title |-> OrElse(job.title, OrElse(Get(exp, KTitle), Engineer)),
     company |-> job.company,
     location |-> job.location,
     start_date |-> job.start_date,
     end_date |-> job.end_date,
     details |-> OrElse(Get(exp, KDetails), ArrVal(<<>>))]

TemplateData(profileData, resumeContent) ==
    [name |-> profileData.name,
     title |-> Get(resumeContent, KTitle),
     summary |-> Get(resumeContent, KSummary),
     skills |-> Get(resumeContent, KSkills),
     experience |-> [idx \in 1..Len(profileData.experience) |->
                        MergeJob(profileData.experience[idx],
                                 At(Get(resumeContent, KExperience), idx))]]

\* compiledTemplate(templateData): the markup is a function of the layout
\* and of the merged document
Render(layout, templateData) == <<layout, templateData>>

(***************************************************************************)
(* Filename derivation                                                     *)
(***************************************************************************)
LowerCase == {"a", "b", "c", "d", "e", "f", "g", "h", "i", "j", "k", "l", "m",
              "n", "o", "p", "q", "r", "s", "t", "u", "v", "w", "x", "y", "z"}
UpperCase == {"A", "B", "C", "D", "E", "F", "G", "H", "I", "J", "K", "L", "M",
              "N", "O", "P", "Q", "R", "S", "T", "U", "V", "W", "X", "Y", "Z"}
Digits == {"0", "1", "2", "3", "4", "5", "6", "7", "8", "9"}

\* [a-z0-9] under the i flag
AlphaNumeric(c) == c \in LowerCase \cup UpperCase \cup Digits

\* str.replace(/[^a-z0-9]/gi, '_')
ReplaceOthers(str) == [i \in 1..Len(str) |-> IF AlphaNumeric(str[i]) THEN str[i] ELSE "_"]

\* .replace(/_+/g, '_'): of every run of underscores the first one stays
CollapseRuns(str) ==
    LET keep == {i \in 1..Len(str) : ~(str[i] = "_" /\ i > 1 /\ str[i - 1] = "_")}
        Nth(k) == CHOOSE i \in keep : Cardinality({j \in keep : j <= i}) = k
    IN  [k \in 1..Cardinality(keep) |-> str[Nth(k)]]

\* the strip without its second alternative: only the leading underscore goes
StripEnds_LeadingOnly(str) ==
    IF str # <<>> /\ Head(str) = "_" THEN Tail(str) ELSE str

\* .replace(/^_|_$/g, ''): one underscore at the start and one at the end go
StripEnds(str) ==
    LET a == IF str # <<>> /\ Head(str) = "_" THEN Tail(str) ELSE str
    IN  IF a # <<>> /\ a[Len(a)] = "_" THEN SubSeq(a, 1, Len(a) - 1) ELSE a

sanitizeFilename(str) == StripEnds(CollapseRuns(ReplaceOthers(str)))

Filename(profileName, company, role) ==
    sanitizeFilename(profileName) \o <<"_">> \o sanitizeFilename(company) \o <<"_">>
        \o sanitizeFilename(role) \o <<".", "p", "d", "f">>

(***************************************************************************)
(* The handler.  Everything from the method check to the rendering of the  *)
(* markup runs without an await, so it is one step; every await of the     *)
(* rasterizer after it is a step of its own, between which the steps of    *)
(* other requests interleave.                                              *)
(***************************************************************************)
MaxInFlight == 2
Slots == 1..MaxInFlight

MsgMethod == "Method not allowed"
MsgProfile == "Profile required"
MsgJd == "Completed resume JSON required"
MsgCompany == "Company name required"
MsgRole == "Role name required"
MsgNotFound == "Profile not found"
MsgForEach == "resumeContent.experience.forEach is not a function"
MsgPath == "The path argument must be of type string"
MsgRasterizer == "rasterizer error"

\* res.status(status).send(text)
SendText(status, msg) ==
    [status |-> status, type |-> "", filename |-> <<>>, kind |-> "text",
     text |-> msg, pdf |-> <<>>]

Catch_BadRequest(error) == SendText(400, error)

\* the catch block of the handler
Catch(error) == SendText(500, error)

\* res.setHeader(...) twice and res.end(pdfBuffer): the status stays 200
SendPdf(filename, pdfBuffer) ==
    [status |-> 200, type |-> "application/pdf", filename |-> filename, kind |-> "pdf",
     text |-> <<"", 0>>, pdf |-> pdfBuffer]

\* page.pdf(...): the bytes are a function of the markup
PdfOf(html) == <<"pdf", html>>

NoHtml == <<>>

Finished(response, pCache, tCache, layout) ==
    [pc |-> "done", res |-> <<response>>, html |-> NoHtml, layout |-> layout,
     profileCache |-> pCache, templateCache |-> tCache]

\* the handler up to its first await
HandlerSync(method, body, pCache, tCache) ==
    IF method # "POST" THEN Finished(SendText(405, <<MsgMethod, 0>>), pCache, tCache, NoLayout)
    ELSE IF body.profile = "" THEN Finished(SendText(400, <<MsgProfile, 0>>), pCache, tCache, NoLayout)
    ELSE IF body.jd = <<>> THEN Finished(SendText(400, <<MsgJd, 0>>), pCache, tCache, NoLayout)
    ELSE IF body.company = <<>> THEN Finished(SendText(400, <<MsgCompany, 0>>), pCache, tCache, NoLayout)
    ELSE IF body.role = <<>> THEN Finished(SendText(400, <<MsgRole, 0>>), pCache, tCache, NoLayout)
    ELSE
    LET lp == loadProfile(pCache, body.profile)
        gt == getTemplate(tCache, body.template)
    IN  The({
        IF ~lp.found THEN Finished(SendText(404, <<MsgNotFound, 0>>), lp.cache, tCache, NoLayout)
        ELSE IF ~n.ok THEN Finished(Catch(n.error), lp.cache, tCache, NoLayout)
        ELSE IF Get(n.content, KExperience)[1] # "a"
        THEN Finished(Catch(<<MsgForEach, 0>>), lp.cache, tCache, NoLayout)
        ELSE IF gt.threw THEN Finished(Catch(<<MsgPath, 0>>), lp.cache, gt.cache, NoLayout)
        ELSE [pc |-> "launch", res |-> <<>>,
              html |-> Render(gt.layout, TemplateData(ProfileFile(body.profile), n.content)),
              layout |-> gt.layout, profileCache |-> lp.cache, templateCache |-> gt.cache]
        : n \in {Normalize(body.jd)} })

(***************************************************************************)
(* The requests the model serves                                           *)
(***************************************************************************)
Str(chars) == StrVal(chars)

SampleExperience ==
    ArrVal(<< ObjVal(<< <<KTitle, Str(<<"T">>)>>, <<KDetails, ArrVal(<<Str(<<"d">>)>>)>> >>) >>)

Content(title, experience) ==
    ObjVal(<< <<KTitle, title>>, <<KSummary, Str(<<"B">>)>>,
              <<KSkills, ObjVal(<<>>)>>, <<KExperience, experience>> >>)

SampleContent == Content(Str(<<"A">>), SampleExperience)

JdValid == Stringify(SampleContent, FALSE)
JdNoObject == <<"h", "i">>
JdBroken == <<"{", "x", "}">>
JdMissing == Stringify(Content(Str(<<>>), SampleExperience), FALSE)
JdNotArray == Stringify(Content(Str(<<"A">>), ObjVal(<<>>)), FALSE)

Acme == <<"A", "c", "m", "e", ",", " ", "I", "n", "c", ".">>
SrEng == <<"S", "r", ".", " ", "E", "n", "g", "!">>

Methods == {"POST", "GET"}
Profiles == {"", "jane", "ghost"}
Jds == {<<>>, JdValid, JdNoObject, JdBroken, JdMissing, JdNotArray}
Templates == {"default", "modern", "", "nope", "constructor"}

Base == [profile |-> "jane", jd |-> JdValid, company |-> Acme, role |-> SrEng,
         template |-> "default"]

\* a well-formed request with one field replaced
RequestBodies ==
    {[Base EXCEPT !.profile = p] : p \in Profiles}
        \cup {[Base EXCEPT !.jd = j] : j \in Jds}
        \cup {[Base EXCEPT !.company = c] : c \in {<<>>, Acme}}
        \cup {[Base EXCEPT !.role = c] : c \in {<<>>, SrEng}}
        \cup {[Base EXCEPT !.template = t] : t \in Templates}

\* a request of another method carries no body that the handler reads
Requests ==
    {[method |-> "POST", body |-> b] : b \in RequestBodies}
        \cup {[method |-> m, body |-> Base] : m \in Methods}

Idle ==
    [pc |-> "idle", method |-> "", body |-> Base, html |-> NoHtml, layout |-> NoLayout,
     browser |-> "none", res |-> <<>>]

NoArg == <<>>

Init ==
    /\ req = [r \in Slots |-> Idle]
    /\ profileCache = {}
    /\ templateCache = <<>>
    /\ arg = NoArg
    /\ ret = NoArg

\* a request arrives and the handler runs to its first await or to its response
Receive(r) ==
    /\ req[r].pc = "idle"
    /\ \E q \in Requests :
          \E out \in {HandlerSync(q.method, q.body, profileCache, templateCache)} :
              /\ req' = [req EXCEPT ![r] =
                          [pc |-> out.pc, method |-> q.method, body |-> q.body,
                           html |-> out.html, layout |-> out.layout,
                           browser |-> "none", res |-> out.res]]
              /\ profileCache' = out.profileCache
              /\ templateCache' = out.templateCache
    /\ UNCHANGED <<arg, ret>>

\* an await of the rasterizer resolves: the handler goes on to the next one
Resolve(r, at, next, browser) ==
    /\ req[r].pc = at
    /\ req' = [req EXCEPT ![r].pc = next, ![r].browser = browser]
    /\ UNCHANGED <<profileCache, templateCache, arg, ret>>

\* an await of the rasterizer rejects: control goes to the catch block
Reject(r, at) ==
    /\ req[r].pc = at
    /\ req' = [req EXCEPT ![r].pc = "done",
                          ![r].res = Append(@, Catch(<<MsgRasterizer, 0>>))]
    /\ UNCHANGED <<profileCache, templateCache, arg, ret>>

LaunchOk(r) == Resolve(r, "launch", "newPage", "open")
LaunchFail(r) == Reject(r, "launch")
NewPageOk(r) == Resolve(r, "newPage", "setContent", "open")
NewPageFail(r) == Reject(r, "newPage")
SetContentOk(r) == Resolve(r, "setContent", "pdf", "open")
SetContentFail(r) == Reject(r, "setContent")
\* page.pdf(...) resolves and browser.close() is called
PdfOk(r) == Resolve(r, "pdf", "close", "closing")
PdfFail(r) == Reject(r, "pdf")
CloseFail(r) == Reject(r, "close")

\* browser.close() resolves: the filename is derived and the PDF is sent
CloseOk(r) ==
    /\ req[r].pc = "close"
    /\ req' = [req EXCEPT
          ![r].pc = "done",
          ![r].browser = "closed",
          ![r].res = Append(@, SendPdf(Filename(ProfileFile(req[r].body.profile).name,
                                                req[r].body.company, req[r].body.role),
                                       PdfOf(req[r].html)))]
    /\ UNCHANGED <<profileCache, templateCache, arg, ret>>

\* the exchange is over; the next request is served
Finish(r) ==
    /\ req[r].pc = "done"
    /\ req' = [req EXCEPT ![r] = Idle]
    /\ UNCHANGED <<profileCache, templateCache, arg, ret>>

Next ==
    \E r \in Slots :
        \/ Receive(r)
        \/ LaunchOk(r)
        \/ LaunchFail(r)
        \/ NewPageOk(r)
        \/ NewPageFail(r)
        \/ SetContentOk(r)
        \/ SetContentFail(r)
        \/ PdfOk(r)
        \/ PdfFail(r)
        \/ CloseOk(r)
        \/ CloseFail(r)
        \/ Finish(r)

Spec == Init /\ [][Next]_vars

(***************************************************************************)
(* Properties of the handler                                               *)
(***************************************************************************)
\* the request in slot r names every required field
Complete(r) ==
    /\ req[r].body.profile # ""
    /\ req[r].body.jd # <<>>
    /\ req[r].body.company # <<>>
    /\ req[r].body.role # <<>>

\* the request in slot r has reached the call of getTemplate
ReachedTemplate(r) ==
    /\ req[r].pc # "idle"
    /\ req[r].method = "POST"
    /\ Complete(r)
    /\ req[r].body.profile \in ProfileStore
    /\ Normalize(req[r].body.jd).ok
    /\ Get(Normalize(req[r].body.jd).content, KExperience)[1] = "a"

\* C1: a request that has ended and had launched a browser has had
\* browser.close() called: no request ends with its browser still open.
C1_SessionReleased ==
    \A r \in Slots : req[r].pc = "done" => req[r].browser # "open"

\* the shape of the one response of an ended request, for a set of statuses
ResponseShape(r, statuses) ==
    /\ Len(req[r].res) = 1
    /\ LET x == req[r].res[1]
       IN  /\ x.status \in statuses
           /\ x.status = 400 <=> (req[r].method = "POST" /\ ~Complete(r))
           /\ x.status = 404 <=>
                 (req[r].method = "POST" /\ Complete(r)
                    /\ req[r].body.profile \notin ProfileStore)
           /\ x.status = 200 =>
                 /\ x.kind = "pdf"
                 /\ x.type = "application/pdf"
                 /\ x.filename = Filename(ProfileFile(req[r].body.profile).name,
                                          req[r].body.company, req[r].body.role)
                 /\ x.pdf = PdfOf(req[r].html)
           /\ x.status # 200 => x.kind = "text" /\ x.type = "" /\ x.pdf = <<>>

\* C2 as stated: a request that has ended has exactly one response, with
\* status 200 (the PDF, its type and the derived filename), 400 (a required
\* field is missing), 404 (the profile is not in the store) or 500; no other
\* status is produced and a non-200 response carries no PDF bytes.
C2_StatusesAsStated ==
    \A r \in Slots :
        /\ req[r].pc = "done" => ResponseShape(r, {200, 400, 404, 500})
        /\ req[r].pc # "done" => req[r].res = <<>>

\* C2 amended: a request that has ended has exactly one response, and none
\* before: status 405 exactly when the method is not POST, 400 exactly when a
\* POST lacks a required field, 404 exactly when the profile of a complete
\* POST is not in the store, else 500 or 200; a 200 carries the PDF, the type
\* application/pdf and the derived filename, and any other status carries
\* text and no PDF bytes.
C2_Responses ==
    \A r \in Slots :
        /\ req[r].pc = "done" =>
              /\ ResponseShape(r, {200, 400, 404, 405, 500})
              /\ req[r].res[1].status = 405 <=> req[r].method # "POST"
        /\ req[r].pc # "done" => req[r].res = <<>>

C2_Witness ==
    /\ req[1].pc = "done" /\ req[1].res[1].status = 405
    /\ req[2].pc = "done" /\ req[2].res[1].status = 200
    /\ req[2].res[1].filename =
          <<"J", "a", "n", "e", "_", "D", "o", "e", "_", "A", "c", "m", "e", "_",
            "I", "n", "c", "_", "S", "r", "_", "E", "n", "g", ".", "p", "d", "f">>

\* slot r takes a complete POST request for a profile that is not in the store
LoadsMissing(r) ==
    /\ req[r].pc = "idle"
    /\ req'[r].pc # "idle"
    /\ req'[r].method = "POST"
    /\ req'[r].body.profile # "" /\ req'[r].body.jd # <<>>
    /\ req'[r].body.company # <<>> /\ req'[r].body.role # <<>>
    /\ req'[r].body.profile \notin ProfileStore

\* C3: whatever loads came before, a load of a profile that is not in the
\* store returns the not-found value (the request ends with the 404 response,
\* not with the 500 of the catch block) and leaves profileCache as it was.
C3_MissingProfile ==
    [][\A r \in Slots :
          LoadsMissing(r) =>
              /\ ~loadProfile(profileCache, req'[r].body.profile).found
              /\ profileCache' = profileCache
              /\ req'[r].pc = "done"
              /\ req'[r].res = <<SendText(404, <<MsgNotFound, 0>>)>>]_vars

C3_Witness ==
    /\ profileCache = {"jane"}
    /\ req[1].pc = "done" /\ req[1].res[1].status = 200
    /\ req[2].pc = "done" /\ req[2].res[1].status = 404
    /\ req[2].body.profile = "ghost"

\* C4: a request whose template identifier is not registered gets the layout
\* that the default identifier gets, and getTemplate raises no error.
C4_UnknownTemplate ==
    \A r \in Slots :
        (ReachedTemplate(r) /\ req[r].body.template \notin DOMAIN TEMPLATE_OPTIONS) =>
            /\ req[r].layout = getTemplate(<<>>, "default").layout
            /\ ~getTemplate(templateCache, req[r].body.template).threw
            /\ (req[r].pc = "done" => req[r].res[1].text # <<MsgPath, 0>>)

\* C10: two requests in flight together that name the same template
\* identifier both obtain a layout, the same one, and render the same markup
\* from the same merged document, and the template cache holds that layout
\* under the identifier that the validation resolves the name to.
C10_ConcurrentTemplate ==
    \A r1, r2 \in Slots :
        (r1 # r2 /\ ReachedTemplate(r1) /\ ReachedTemplate(r2)
            /\ req[r1].body.template = req[r2].body.template) =>
            /\ req[r1].layout # NoLayout
            /\ req[r1].layout = req[r2].layout
            /\ (req[r1].body = req[r2].body => req[r1].html = req[r2].html)
            /\ ValidatedName(req[r1].body.template) \in DOMAIN templateCache
            /\ templateCache[ValidatedName(req[r1].body.template)] = req[r1].layout

(***************************************************************************)
(* Filename derivation as a function: the inputs are drawn in the initial  *)
(* state and the one step applies it.                                      *)
(***************************************************************************)
MaxNameLen == 3

NameChars == {"a", "Z", "7", "_", " ", "."}

RECURSIVE StringsUpTo(_, _)
StringsUpTo(chars, n) ==
    IF n = 0 THEN {<<>>}
    ELSE StringsUpTo(chars, n - 1)
            \cup {Append(w, c) : w \in {v \in StringsUpTo(chars, n - 1) : Len(v) = n - 1},
                                 c \in chars}

FilenameInputs ==
    {[profileName |-> n, company |-> c, role |-> r] :
        n \in StringsUpTo(NameChars, MaxNameLen),
        c \in {Acme, <<"_", "b", ".", ".">>},
        r \in {SrEng, <<" ", "_">>}}
      \cup {[profileName |-> JaneDoe.name, company |-> Acme, role |-> SrEng]}

HandlerAtRest ==
    /\ req = [r \in Slots |-> Idle]
    /\ profileCache = {}
    /\ templateCache = <<>>

InitSanitize ==
    /\ HandlerAtRest
    /\ arg \in FilenameInputs
    /\ ret = <<>>

DeriveFilename ==
    /\ ret = <<>>
    /\ ret' = << [filename |-> Filename(arg.profileName, arg.company, arg.role),
                  parts |-> <<sanitizeFilename(arg.profileName),
                              sanitizeFilename(arg.company),
                              sanitizeFilename(arg.role)>>] >>
    /\ UNCHANGED <<req, profileCache, templateCache, arg>>

SpecSanitize == InitSanitize /\ [][DeriveFilename]_vars

\* what the claim says sanitize returns: the maximal runs of characters of
\* [A-Za-z0-9], in order, with one underscore between consecutive runs
RunStarts(str) ==
    {i \in 1..Len(str) : AlphaNumeric(str[i]) /\ (i = 1 \/ ~AlphaNumeric(str[i - 1]))}

RECURSIVE JoinRuns(_, _)
JoinRuns(str, i) ==
    IF i > Len(str) THEN <<>>
    ELSE IF AlphaNumeric(str[i])
    THEN (IF i \in RunStarts(str) /\ \E j \in RunStarts(str) : j < i
          THEN <<"_", str[i]>> ELSE <<str[i]>>) \o JoinRuns(str, i + 1)
    ELSE JoinRuns(str, i + 1)

CleanPart(p) ==
    /\ \A i \in 1..Len(p) : AlphaNumeric(p[i]) \/ p[i] = "_"
    /\ \A i \in 1..(Len(p) - 1) : ~(p[i] = "_" /\ p[i + 1] = "_")
    /\ p # <<>> => p[1] # "_" /\ p[Len(p)] # "_"

JaneAcmeSrEng ==
    <<"J", "a", "n", "e", "_", "D", "o", "e", "_", "A", "c", "m", "e", "_", "I", "n", "c",
      "_", "S", "r", "_", "E", "n", "g", ".", "p", "d", "f">>

\* C9: the filename is the three sanitized parts joined by "_" with ".pdf"
\* appended; each part is the input with every character outside [A-Za-z0-9]
\* made "_", runs of "_" collapsed and the "_" at both ends stripped, so it holds
\* only [A-Za-z0-9_], no two adjacent "_", no "_" at either end; sanitizing a
\* part again changes nothing; ("Jane Doe", "Acme, Inc.", "Sr. Eng!") gives
\* "Jane_Doe_Acme_Inc_Sr_Eng.pdf".
C9_Filename ==
    ret # <<>> =>
        LET inputs == <<arg.profileName, arg.company, arg.role>>
            parts == ret[1].parts
        IN  /\ ret[1].filename =
                  parts[1] \o <<"_">> \o parts[2] \o <<"_">> \o parts[3] \o <<".", "p", "d", "f">>
            /\ \A k \in 1..3 :
                  /\ parts[k] = JoinRuns(inputs[k], 1)
                  /\ CleanPart(parts[k])
                  /\ sanitizeFilename(parts[k]) = parts[k]
            /\ (arg.profileName = JaneDoe.name /\ arg.company = Acme /\ arg.role = SrEng)
                  => ret[1].filename = JaneAcmeSrEng

\* an input with underscores of its own at the ends and in runs has been sanitized
C9_Witness ==
    /\ ret # <<>>
    /\ arg.profileName = <<"_", "_", "a">>
    /\ arg.role = <<" ", "_">>
    /\ ret[1].parts[1] = <<"a">>
    /\ ret[1].parts[3] = <<>>

(***************************************************************************)
(* The merge as a function of a profile with n jobs and a submitted        *)
(* content with m experience entries                                       *)
(***************************************************************************)
MaxJobs == 2
MaxEntries == 3

Digit(i) == CHOOSE d \in Digits : d = ToString(i)

\* job i of a profile: its company and dates tell the jobs apart
JobAt(i, title) ==
    [title |-> title, company |-> Str(<<"C", Digit(i)>>), location |-> Str(<<"L", Digit(i)>>),
     start_date |-> Str(<<Digit(i)>>), end_date |-> Str(<<Digit(i), "0">>)]

JobTitles == {Undefined, Str(<<"L", "e", "a", "d">>)}

ProfilesWithJobs ==
    UNION {{[name |-> JaneDoe.name, experience |-> [i \in 1..n |-> JobAt(i, t[i])]] :
              t \in [1..n -> JobTitles]} : n \in 0..MaxJobs}

\* a submitted experience entry: with or without a title, with a detail
\* list, an empty one or none
Entries ==
    {ObjVal(<< <<KTitle, Str(<<"T">>)>>, <<KDetails, ArrVal(<<Str(<<"d">>)>>)>> >>),
     ObjVal(<< <<KDetails, ArrVal(<<Str(<<"e">>), Str(<<"f">>)>>)>> >>),
     ObjVal(<< <<KTitle, Str(<<"U">>)>>, <<KDetails, ArrVal(<<>>)>> >>),
     ObjVal(<< <<KTitle, Str(<<"V">>)>> >>)}

ContentsWithEntries ==
    UNION {{Content(Str(<<"A">>), ArrVal(e)) : e \in [1..m -> Entries]} : m \in 0..MaxEntries}

InitMerge ==
    /\ HandlerAtRest
    /\ arg \in {[profile |-> p, content |-> c] : p \in ProfilesWithJobs, c \in ContentsWithEntries}
    /\ ret = <<>>

Merge ==
    /\ ret = <<>>
    /\ ret' = <<TemplateData(arg.profile, arg.content)>>
    /\ UNCHANGED <<req, profileCache, templateCache, arg>>

SpecMerge == InitMerge /\ [][Merge]_vars

\* C5: the merged experience list has one entry per profile job; entry i has
\* the company, location and dates of job i and the detail list of submitted
\* entry i; where there is no submitted entry i (or it has no detail list) the
\* detail list is empty, and submitted entries past the last job do not appear.
C5_PositionalMerge ==
    ret # <<>> =>
        LET jobs == arg.profile.experience
            submitted == Get(arg.content, KExperience)[2]
            merged == ret[1].experience
        IN  /\ Len(merged) = Len(jobs)
            /\ \A i \in 1..Len(jobs) :
                  /\ merged[i].company = jobs[i].company
                  /\ merged[i].location = jobs[i].location
                  /\ merged[i].start_date = jobs[i].start_date
                  /\ merged[i].end_date = jobs[i].end_date
                  /\ merged[i].details =
                        IF i <= Len(submitted) /\ Get(submitted[i], KDetails) # Undefined
                        THEN Get(submitted[i], KDetails)
                        ELSE ArrVal(<<>>)

\* two jobs merged with one submitted entry: the second detail list is empty
C5_Witness ==
    /\ ret # <<>>
    /\ Len(arg.profile.experience) = 2
    /\ Len(Get(arg.content, KExperience)[2]) = 1
    /\ ret[1].experience[1].details = ArrVal(<<Str(<<"d">>)>>)
    /\ ret[1].experience[2].details = ArrVal(<<>>)

\* C11: the title of merged entry i is the title of submitted entry i when
\* that entry has one; the title of job i is used only where submitted entry
\* i is absent or has no title.
C11_SubmittedTitleOverrides ==
    ret # <<>> =>
        LET jobs == arg.profile.experience
            submitted == Get(arg.content, KExperience)[2]
            merged == ret[1].experience
        IN  \A i \in 1..Len(jobs) :
               IF i <= Len(submitted) /\ Get(submitted[i], KTitle) # Undefined
               THEN merged[i].title = Get(submitted[i], KTitle)
               ELSE jobs[i].title # Undefined => merged[i].title = jobs[i].title

(***************************************************************************)
(* Content normalization as a function of the submitted text.  An input is *)
(* built from a JSON object: its text, or that text with trailing commas,  *)
(* inside fences, or inside fences with prose around them.                 *)
(***************************************************************************)
\* string values: plain, empty, and with the characters that the fence
\* stripping, the brace slicing and the comma repair look for
StringValues ==
    {<<"A">>, <<>>, <<"a", ",", "}">>, <<"a", ",", " ", "]">>, <<"x", ",", ",", "y">>,
     <<BT, BT, BT, "j", "s", "o", "n">>, <<BT, BT, BT, " ", "z">>, <<"}", "{">>}

SkillValues == {ObjVal(<<>>), ObjVal(<< <<<<"k">>, ArrVal(<<Str(<<"v">>), Str(<<"w">>)>>)>> >>)}

ExperienceValues == {ArrVal(<<>>), SampleExperience, ObjVal(<<>>)}

\* the object with the required keys of present only, in the order of RequiredKeys
Select(pairs, present) == SelectSeq(pairs, LAMBDA kv : kv[1] \in present)

SubmittedObjects ==
    {ObjVal(<< <<KTitle, Str(t)>>, <<KSummary, Str(<<"B">>)>>, <<KSkills, sk>>,
               <<KExperience, ex>> >>) :
        t \in StringValues, sk \in SkillValues, ex \in ExperienceValues}
      \cup {ObjVal(Select(SampleContent[2], present)) :
              present \in SUBSET {KTitle, KSummary, KSkills, KExperience}}

Word(kind) ==
    CASE kind = "before" -> <<"H", "e", "r", "e", ":", "\n">>
      [] kind = "after" -> <<"\n", "D", "o", "n", "e", ".">>
      [] kind = "braces" -> <<"u", "s", "e", " ", "{", "x", "}", ":", "\n">>

Shapes == {"plain", "trailing", "doubled", "broken", "fenced", "tagged", "prose", "braces"}

\* the submitted text of shape sh for the object obj
Submitted(obj, sh) ==
    CASE sh = "plain" -> Stringify(obj, FALSE)
      [] sh = "trailing" -> Stringify(obj, TRUE)
      [] sh = "doubled" ->
            SubSeq(Stringify(obj, FALSE), 1, Len(Stringify(obj, FALSE)) - 1) \o <<",", ",", "}">>
      [] sh = "broken" ->
            \* a doubled comma, which the repair removes, and then a bare word,
            \* which it does not
            SubSeq(Stringify(obj, FALSE), 1, Len(Stringify(obj, FALSE)) - 1)
                \o <<",", ",", Q, "z", Q, ":", "x", "}">>
      [] sh = "fenced" -> Fence \o <<"\n">> \o Stringify(obj, FALSE) \o <<"\n">> \o Fence
      [] sh = "tagged" ->
            Fence \o <<"J", "S", "O", "N", "\n">> \o Stringify(obj, FALSE) \o <<"\n">> \o Fence
      [] sh = "prose" ->
            Word("before") \o Fence \o TagJson \o <<"\n">> \o Stringify(obj, FALSE)
                \o <<"\n">> \o Fence \o Word("after")
      [] sh = "braces" ->
            Word("braces") \o Fence \o TagJavascript \o <<"\n">> \o Stringify(obj, FALSE)
                \o <<"\n">> \o Fence \o Word("after")

NormalizeInputs ==
    {[jd |-> Submitted(obj, sh), obj |-> obj, shape |-> sh] :
        obj \in SubmittedObjects, sh \in Shapes}

InitNormalize ==
    /\ HandlerAtRest
    /\ arg \in NormalizeInputs
    /\ ret = <<>>

NormalizeStep ==
    /\ ret = <<>>
    /\ ret' = <<Normalize(arg.jd)>>
    /\ UNCHANGED <<req, profileCache, templateCache, arg>>

SpecNormalize == InitNormalize /\ [][NormalizeStep]_vars

\* the normalization of the text of the object alone
OfObjectAlone == Normalize(Stringify(arg.obj, FALSE))

\* C6: for a valid JSON object with trailing commas added before its closing
\* brackets and braces, normalization gives what it gives for the comma-free
\* text: the same success or failure and the same object, string values
\* included.
C6_TrailingCommas ==
    (ret # <<>> /\ arg.shape = "trailing") =>
        /\ ret[1].ok = OfObjectAlone.ok
        /\ ret[1].content = OfObjectAlone.content

\* C8: for a valid JSON object inside fences, with or without prose before
\* and after (prose that may hold braces), normalization gives what it gives
\* for the text of the object alone, string values included.
C8_FencedObject ==
    (ret # <<>> /\ arg.shape \in {"fenced", "tagged", "prose", "braces"}) =>
        /\ ret[1].ok = OfObjectAlone.ok
        /\ ret[1].content = OfObjectAlone.content

\* the parse of the submitted text succeeded, and gave an object without
\* the keys of missing and with the other required keys
ParsedWithout(jd, missing) ==
    LET p == ParseWithRepair(ExtractJson(jd).text)
    IN  /\ ExtractJson(jd).ok
        /\ p.ok
        /\ missing = {RequiredKeys[i] : i \in {j \in 1..Len(RequiredKeys) :
                                                  Get(p.content, RequiredKeys[j]) = Undefined}}

MissingSets == SUBSET {KTitle, KSummary, KSkills, KExperience} \ {{}}

\* C7 amended: parsed content that lacks at least one of the four required
\* fields fails normalization, with the one fixed message that lists all four
\* required fields, whichever of them are missing.
C7_MissingFields ==
    \A missing \in MissingSets :
        (ret # <<>> /\ ParsedWithout(arg.jd, missing)) =>
            /\ ~ret[1].ok
            /\ ret[1].error = <<MsgMissing, 0>>

C7_Witness ==
    /\ ret # <<>>
    /\ arg.shape = "prose"
    /\ ParsedWithout(arg.jd, {KSkills, KExperience})
    /\ ret[1].error = <<MsgMissing, 0>>

\* C7 as stated: such content fails normalization and the message differs
\* according to the set of missing fields: content with another set of
\* missing fields gets another message.
C7_NamesMissing ==
    \A missing \in MissingSets :
        (ret # <<>> /\ ParsedWithout(arg.jd, missing)) =>
            /\ ~ret[1].ok
            /\ \A other \in MissingSets \ {missing} :
                  \A obj \in {ObjVal(Select(SampleContent[2],
                                 {KTitle, KSummary, KSkills, KExperience} \ other))} :
                      Normalize(Stringify(obj, FALSE)).error # ret[1].error

\* C12: a parsed object that has all four required keys is accepted and
\* passed on as parsed, whatever the values of the keys (an empty string, an
\* empty map or an empty list included).
C12_PresenceOnly ==
    (ret # <<>> /\ ParsedWithout(arg.jd, {})) =>
        /\ ret[1].ok
        /\ ret[1].content = ParseWithRepair(ExtractJson(arg.jd).text).content

\* C13: the text is parsed once; when that parse fails the repaired text is
\* parsed once, and never a third time; when the second parse fails too the
\* error carries the message of the first failure, not of the second; when
\* it succeeds its value is the one validated.
C13_TwoStageParse ==
    (ret # <<>> /\ ExtractJson(arg.jd).ok) =>
        LET text == ExtractJson(arg.jd).text
            first == JSONparse(text)
            second == JSONparse(FixCommonIssues(text))
        IN  /\ ret[1].parses = IF first.ok THEN 1 ELSE 2
            /\ (first.ok /\ ret[1].ok) => ret[1].content = first.val
            /\ (~first.ok /\ second.ok /\ ret[1].ok) => ret[1].content = second.val
            /\ (~first.ok /\ ~second.ok) =>
                  /\ ~ret[1].ok
                  /\ ret[1].error = <<MsgInvalidJson, first.pos>>

\* both parses fail, at different places: the error is that of the first
C13_Witness ==
    /\ ret # <<>>
    /\ arg.shape = "broken"
    /\ ~ret[1].ok
    /\ ret[1].parses = 2
    /\ ret[1].error = <<MsgInvalidJson, JSONparse(ExtractJson(arg.jd).text).pos>>
    /\ JSONparse(FixCommonIssues(ExtractJson(arg.jd).text)).pos
          # JSONparse(ExtractJson(arg.jd).text).pos

====
